---- MODULE Spec2Model ----
(***************************************************************************)
(* State-machine model of the Spotify extract/load code                    *)
(* (data_extract_load/load_spotify_data.py): the paginated search          *)
(* generator spotify_search_tracks, the chunked artist lookup              *)
(* fetch_artist_genres and the enrichment run run_artist_enrichment; and   *)
(* of the dashboard's genre functions (dashboard/spotify_dashboard.py):    *)
(* to_genre_list, clean_genre_label and compute_genre_stats; and of the    *)
(* Dagster orchestration (orchestration/): the ingest asset and the sensor *)
(* that requests the dbt job.                                              *)
(*                                                                         *)
(* A Python generator only runs while its consumer pulls (next()): the     *)
(* generators are modelled with a program counter whose values are the     *)
(* places in the source where control can rest, and a Pull action that     *)
(* stands for the consumer's next().  The provider (the Spotify Web API)   *)
(* is the environment: every response is a nondeterministic choice.        *)
(***************************************************************************)
EXTENDS Integers, Sequences, FiniteSets, TLC

VARIABLES
    env,        \* the process environment: SPOTIPY_CLIENT_ID / _SECRET
    client,     \* the lru_cache of _spotify_client(): TRUE once a client is cached
    prov,       \* the behaviour of the search provider during this run
    gen,        \* the spotify_search_tracks generator objects, by invocation
    entry,      \* which entry point this run calls: "search", "fetch", "enrich",
                \* "dashboard" or "orchestration"
    fg,         \* the fetch_artist_genres generator object
    run,        \* the call of run_artist_enrichment
    db,         \* the DuckDB file: the staged artist ids and the enriched table
    dash,       \* the dashboard's genre functions: the call in progress
    orch        \* the Dagster instance: the ingest asset, its materialization
                \* events, the asset sensor and the dbt run requests

vars == <<env, client, prov, gen, entry, fg, run, db, dash, orch>>

-----------------------------------------------------------------------------
(* Program constants *)

PageMax == 50
MaxTotal == 10000
BatchSize == 50

(* Bounds of the model *)

MaxFreeTotal == 3
MaxPageLen == 2
MaxChunks == 2
MaxStaged == 2
MaxStrLen == 3
MaxListLen == 2
MaxRows == 2
MaxIngests == 4

-----------------------------------------------------------------------------
(* Values *)

Max(a, b) == IF a >= b THEN a ELSE b
Min(a, b) == IF a <= b THEN a ELSE b
CeilDiv(a, b) == (a + b - 1) \div b

\* the concatenation of a sequence of sequences
RECURSIVE Flatten(_)
Flatten(ss) == IF ss = <<>> THEN <<>> ELSE Head(ss) \o Flatten(Tail(ss))

\* os.getenv gives None for an unset variable; "" is a set but empty one.
Unset == "<None>"
EnvValues == {Unset, "", "secret"}
Truthy(v) == v # Unset /\ v # ""

\* min_popularity: None, or an integer.
NoMin == [isNone |-> TRUE, v |-> 0]
MinPop(p) == [isNone |-> FALSE, v |-> p]

\* popularity of the track at absolute result position pos of the catalog:
\* the pages repeat the popularities 10, 60, 90.
PopCycle == <<10, 60, 90>>
PopAt(pos) == PopCycle[(pos % Len(PopCycle)) + 1]

Track(pos, pop) == [id |-> pos, popularity |-> pop]

CatalogPage(offset, n) == [i \in 1..n |-> Track(offset + i - 1, PopAt(offset + i - 1))]

FreePops == {10, 60}
FreePages(offset) ==
    UNION {{[i \in 1..n |-> Track(offset + i - 1, f[i])] : f \in [1..n -> FreePops]} :
           n \in 0..MaxPageLen}

-----------------------------------------------------------------------------
(* The search provider: what sp.search(q, type, limit, offset) may return. *)
(*   catalog: a constant total T and min(limit, T - offset) items          *)
(*   full:    a constant total T and always limit items                    *)
(*   short:   a constant total T and one item per page below T             *)
(*   free:    any total in 0..MaxFreeTotal and any page up to MaxPageLen   *)

SearchResponses(p, offset, limit) ==
    CASE p.kind = "catalog" ->
            {[items |-> CatalogPage(offset, Min(limit, Max(0, p.total - offset))),
              total |-> p.total]}
      [] p.kind = "full" ->
            {[items |-> CatalogPage(offset, limit), total |-> p.total]}
      [] p.kind = "short" ->
            {[items |-> CatalogPage(offset, IF offset < p.total THEN 1 ELSE 0),
              total |-> p.total]}
      [] OTHER ->
            {[items |-> pg, total |-> t] : pg \in FreePages(offset), t \in 0..MaxFreeTotal}

-----------------------------------------------------------------------------
(* spotify_search_tracks *)

\* variant: only the upper end is clamped
ClampLimitUpperOnly(limit) == Min(limit, PageMax)

\* line 88
ClampLimit(limit) == Max(1, Min(limit, PageMax))

\* variant: a strict comparison
PassesStrict(t, min_popularity) == min_popularity.isNone \/ t.popularity > min_popularity.v

\* lines 122-123
Passes(t, min_popularity) == min_popularity.isNone \/ t.popularity >= min_popularity.v

\* variant: the offset advances by the number of items yielded from the page
AdvanceByYielded(s) == s.offset + Len(s.pageYielded)

\* variant: the offset is not advanced
AdvanceStalls(s) == s.offset

\* line 126: offset += limit (s is the generator's frame)
AdvanceOffset(s) == s.offset + s.limit

\* variant: the comparison with the total is strict
LoopBreaksLate(offset, total) == offset > total \/ offset >= MaxTotal

\* variant: the 10,000 ceiling is not tested
LoopBreaksNoCap(offset, total) == offset >= total

\* lines 128-131
LoopBreaks(offset, total) == offset >= total \/ offset >= MaxTotal

Gens == {1, 2}

NewGen(limitArg, minPop) ==
    [pc |-> "new", limitArg |-> limitArg, min_popularity |-> minPop,
     limit |-> 0, offset |-> 0, total |-> 0, items |-> <<>>, idx |-> 0,
     processed |-> 0, err |-> "",
     nreq |-> 0, reqOffset |-> 0, reqLimit |-> 0,
     nYielded |-> 0, pageYielded |-> <<>>]

\* the consumer's next(): the generator body runs from where it rests
Pull(g) ==
    /\ entry = "search"
    /\ gen[g].pc \in {"new", "yielded"}
    /\ gen' = [gen EXCEPT ![g].pc = IF @ = "new" THEN "start" ELSE "items"]
    /\ UNCHANGED <<env, client, prov, entry, fg, run, db, dash, orch>>

\* variant: only the client id is tested
ClientIdOnly == client \/ Truthy(env.id)

\* make_spotify_client behind the lru_cache of _spotify_client
ClientAvailable == client \/ (Truthy(env.id) /\ Truthy(env.secret))

\* lines 88-100: clamp the limit, reset the bookkeeping, get the client
Start(g) ==
    /\ gen[g].pc = "start"
    /\ IF ClientAvailable
         THEN /\ client' = TRUE
              /\ gen' = [gen EXCEPT ![g].pc = "request",
                                    ![g].limit = ClampLimit(gen[g].limitArg),
                                    ![g].offset = 0,
                                    ![g].processed = 0]
         ELSE /\ client' = client
              /\ gen' = [gen EXCEPT ![g].pc = "raised",
                                    ![g].limit = ClampLimit(gen[g].limitArg),
                                    ![g].err = "RuntimeError"]
    /\ UNCHANGED <<env, prov, entry, fg, run, db, dash, orch>>

\* variant: the next page is fetched ahead, while the consumer still holds
\* an item of the current page
RequestPrefetch(g) ==
    /\ gen[g].pc \in {"request", "yielded"}
    /\ \E r \in SearchResponses(prov, gen[g].offset, gen[g].limit) :
          gen' = [gen EXCEPT ![g].pc = IF r.items = <<>> THEN "done" ELSE "items",
                             ![g].items = r.items,
                             ![g].total = r.total,
                             ![g].idx = 0,
                             ![g].pageYielded = <<>>,
                             ![g].nreq = @ + 1,
                             ![g].reqOffset = gen[g].offset,
                             ![g].reqLimit = gen[g].limit]
    /\ UNCHANGED <<env, client, prov, entry, fg, run, db, dash, orch>>

\* lines 103-119: one sp.search call that returns a page
Request(g) ==
    /\ gen[g].pc = "request"
    /\ \E r \in SearchResponses(prov, gen[g].offset, gen[g].limit) :
          gen' = [gen EXCEPT ![g].pc = IF r.items = <<>> THEN "done" ELSE "items",
                             ![g].items = r.items,
                             ![g].total = r.total,
                             ![g].idx = 0,
                             ![g].pageYielded = <<>>,
                             ![g].nreq = @ + 1,
                             ![g].reqOffset = gen[g].offset,
                             ![g].reqLimit = gen[g].limit]
    /\ UNCHANGED <<env, client, prov, entry, fg, run, db, dash, orch>>

\* variant: the failed call is tried again
RequestRetries(g) ==
    /\ gen[g].pc = "request"
    /\ gen' = [gen EXCEPT ![g].err = "ProviderError",
                          ![g].nreq = @ + 1,
                          ![g].reqOffset = gen[g].offset,
                          ![g].reqLimit = gen[g].limit]
    /\ UNCHANGED <<env, client, prov, entry, fg, run, db, dash, orch>>

\* line 112: sp.search raises; nothing in the generator catches it
RequestFails(g) ==
    /\ gen[g].pc = "request"
    /\ gen' = [gen EXCEPT ![g].pc = "raised",
                          ![g].err = "ProviderError",
                          ![g].nreq = @ + 1,
                          ![g].reqOffset = gen[g].offset,
                          ![g].reqLimit = gen[g].limit]
    /\ UNCHANGED <<env, client, prov, entry, fg, run, db, dash, orch>>

\* lines 121-124: the item passes the filter and is yielded
YieldItem(g) ==
    /\ gen[g].pc = "items"
    /\ gen[g].idx < Len(gen[g].items)
    /\ LET t == gen[g].items[gen[g].idx + 1] IN
          /\ Passes(t, gen[g].min_popularity)
          /\ gen' = [gen EXCEPT ![g].pc = "yielded",
                                ![g].idx = @ + 1,
                                ![g].nYielded = @ + 1,
                                ![g].pageYielded = Append(@, t)]
    /\ UNCHANGED <<env, client, prov, entry, fg, run, db, dash, orch>>

\* lines 121-123: the item is filtered out
SkipItem(g) ==
    /\ gen[g].pc = "items"
    /\ gen[g].idx < Len(gen[g].items)
    /\ ~Passes(gen[g].items[gen[g].idx + 1], gen[g].min_popularity)
    /\ gen' = [gen EXCEPT ![g].idx = @ + 1]
    /\ UNCHANGED <<env, client, prov, entry, fg, run, db, dash, orch>>

\* variant: the offset is one variable shared by all invocations
AdvanceShared(g) ==
    /\ gen[g].pc = "items"
    /\ gen[g].idx = Len(gen[g].items)
    /\ LET off == AdvanceOffset(gen[g]) IN
          gen' = [h \in Gens |->
                    IF h = g
                      THEN [gen[g] EXCEPT !.offset = off,
                                          !.pc = IF LoopBreaks(off, gen[g].total)
                                                   THEN "done" ELSE "request",
                                          !.processed = IF LoopBreaks(off, gen[g].total)
                                                          THEN @ ELSE @ + Len(gen[g].items)]
                      ELSE [gen[h] EXCEPT !.offset = off]]
    /\ UNCHANGED <<env, client, prov, entry, fg, run, db, dash, orch>>

\* lines 126-135: the page is exhausted; advance the offset, break or loop
Advance(g) ==
    /\ gen[g].pc = "items"
    /\ gen[g].idx = Len(gen[g].items)
    /\ LET off == AdvanceOffset(gen[g]) IN
          gen' = [gen EXCEPT ![g].offset = off,
                             ![g].pc = IF LoopBreaks(off, gen[g].total)
                                         THEN "done" ELSE "request",
                             ![g].processed = IF LoopBreaks(off, gen[g].total)
                                                THEN @ ELSE @ + Len(gen[g].items)]
    /\ UNCHANGED <<env, client, prov, entry, fg, run, db, dash, orch>>

SearchStep(g) ==
    \/ Pull(g)
    \/ Start(g)
    \/ Request(g)
    \/ RequestFails(g)
    \/ YieldItem(g)
    \/ SkipItem(g)
    \/ Advance(g)

-----------------------------------------------------------------------------
(* The artists provider: what sp.artists(chunk) may return.  The response  *)
(* is None, a dict without "artists", or a dict whose "artists" list has   *)
(* one entry per requested id, null for the ids the mask leaves unresolved. *)

NullEntry == [isNull |-> TRUE, id |-> ""]
Artist(id) == [isNull |-> FALSE, id |-> id]

NullMasks == {"resolved", "unresolved", "odd"}
Unresolved(mask, i) == mask = "unresolved" \/ (mask = "odd" /\ i % 2 = 1)

ArtistResponses(chunk) ==
    {[isNone |-> TRUE, hasArtists |-> FALSE, artists |-> <<>>],
     [isNone |-> FALSE, hasArtists |-> FALSE, artists |-> <<>>]}
        \cup {[isNone |-> FALSE, hasArtists |-> TRUE,
               artists |-> [i \in 1..Len(chunk) |->
                               IF Unresolved(m, i) THEN NullEntry ELSE Artist(chunk[i])]] :
              m \in NullMasks}

-----------------------------------------------------------------------------
(* fetch_artist_genres *)

\* variant: a trailing partial chunk is dropped
BatchWholeOnly(iterable, size) ==
    [k \in 1..(Len(iterable) \div size) |->
        SubSeq(iterable, (k - 1) * size + 1, k * size)]

\* _batch: the slices iterable[i:i + size] for i in range(0, len(iterable), size)
Batch(iterable, size) ==
    [k \in 1..CeilDiv(Len(iterable), size) |->
        SubSeq(iterable, (k - 1) * size + 1, Min(k * size, Len(iterable)))]

\* res = sp.artists(chunk) or {}; artists = res.get("artists", [])
ArtistsOf(res) == IF res.isNone \/ ~res.hasArtists THEN <<>> ELSE res.artists

\* the record yielded for a non-null entry (its artist_id column)
EnrichedRecord(a) == [artist_id |-> a.id]

\* variant: null entries are not skipped
NeverSkipped(a) == FALSE

\* line 226: if not a
Skipped(a) == a.isNull

NoFetch ==
    [pc |-> "idle", artist_ids |-> <<>>, k |-> 0, artists |-> <<>>, idx |-> 0,
     lookups |-> <<>>, emitted |-> <<>>, chunkEmitted |-> <<>>, err |-> ""]

NewFetch(artist_ids) == [NoFetch EXCEPT !.pc = "new", !.artist_ids = artist_ids]

\* the consumer of the records: the caller of fetch_artist_genres, or the
\* dlt pipeline that run_artist_enrichment runs
FetchPull ==
    /\ entry = "fetch" \/ run.pc = "extract"
    /\ fg.pc \in {"new", "yielded"}
    /\ fg' = [fg EXCEPT !.pc = IF @ = "new" THEN "start" ELSE "artists"]
    /\ UNCHANGED <<env, client, prov, gen, entry, run, db, dash, orch>>

\* lines 220-221: get the client
FetchStart ==
    /\ fg.pc = "start"
    /\ IF ClientAvailable
         THEN /\ client' = TRUE
              /\ fg' = [fg EXCEPT !.pc = "loop", !.k = 0]
         ELSE /\ client' = client
              /\ fg' = [fg EXCEPT !.pc = "raised", !.err = "RuntimeError"]
    /\ UNCHANGED <<env, prov, gen, entry, run, db, dash, orch>>

\* lines 222-224: the next chunk is looked up and the lookup returns
FetchLookup ==
    /\ fg.pc = "loop"
    /\ fg.k < Len(Batch(fg.artist_ids, BatchSize))
    /\ LET chunk == Batch(fg.artist_ids, BatchSize)[fg.k + 1] IN
          \E res \in ArtistResponses(chunk) :
              fg' = [fg EXCEPT !.pc = "artists",
                               !.k = @ + 1,
                               !.artists = ArtistsOf(res),
                               !.idx = 0,
                               !.chunkEmitted = <<>>,
                               !.lookups = Append(@, chunk)]
    /\ UNCHANGED <<env, client, prov, gen, entry, run, db, dash, orch>>

\* the failure is swallowed and the chunk loop goes on
FetchLookupSwallowed ==
    /\ fg.pc = "loop"
    /\ fg.k < Len(Batch(fg.artist_ids, BatchSize))
    /\ fg' = [fg EXCEPT !.pc = "loop",
                        !.err = "ProviderError",
                        !.k = @ + 1,
                        !.lookups = Append(@, Batch(fg.artist_ids, BatchSize)[fg.k + 1])]
    /\ UNCHANGED <<env, client, prov, gen, entry, run, db, dash, orch>>

\* line 223: sp.artists raises; nothing in the generator catches it
FetchLookupFails ==
    /\ fg.pc = "loop"
    /\ fg.k < Len(Batch(fg.artist_ids, BatchSize))
    /\ fg' = [fg EXCEPT !.pc = "raised",
                        !.err = "ProviderError",
                        !.k = @ + 1,
                        !.lookups = Append(@, Batch(fg.artist_ids, BatchSize)[fg.k + 1])]
    /\ UNCHANGED <<env, client, prov, gen, entry, run, db, dash, orch>>

\* line 222: _batch is exhausted, the generator returns
FetchFinish ==
    /\ fg.pc = "loop"
    /\ fg.k >= Len(Batch(fg.artist_ids, BatchSize))
    /\ fg' = [fg EXCEPT !.pc = "done"]
    /\ UNCHANGED <<env, client, prov, gen, entry, run, db, dash, orch>>

\* lines 225-235: a non-null entry is yielded as a record
FetchYield ==
    /\ fg.pc = "artists"
    /\ fg.idx < Len(fg.artists)
    /\ LET a == fg.artists[fg.idx + 1] IN
          /\ ~Skipped(a)
          /\ fg' = [fg EXCEPT !.pc = "yielded",
                              !.idx = @ + 1,
                              !.emitted = Append(@, EnrichedRecord(a)),
                              !.chunkEmitted = Append(@, EnrichedRecord(a))]
    /\ UNCHANGED <<env, client, prov, gen, entry, run, db, dash, orch>>

\* lines 225-227: a null entry is skipped
FetchSkipNull ==
    /\ fg.pc = "artists"
    /\ fg.idx < Len(fg.artists)
    /\ Skipped(fg.artists[fg.idx + 1])
    /\ fg' = [fg EXCEPT !.idx = @ + 1]
    /\ UNCHANGED <<env, client, prov, gen, entry, run, db, dash, orch>>

\* line 225: the response is exhausted, back to the chunk loop
FetchNextChunk ==
    /\ fg.pc = "artists"
    /\ fg.idx = Len(fg.artists)
    /\ fg' = [fg EXCEPT !.pc = "loop"]
    /\ UNCHANGED <<env, client, prov, gen, entry, run, db, dash, orch>>

FetchStep ==
    \/ FetchPull
    \/ FetchStart
    \/ FetchLookup
    \/ FetchLookupFails
    \/ FetchFinish
    \/ FetchYield
    \/ FetchSkipNull
    \/ FetchNextChunk

-----------------------------------------------------------------------------
(* run_artist_enrichment *)

Range(s) == {s[i] : i \in 1..Len(s)}

\* SELECT DISTINCT id FROM staging.raw_spotify_tracks__artists
SelectDistinct(rows) == Range(rows)

\* the orders in which a result set may come back
Orderings(S) ==
    {s \in [1..Cardinality(S) -> S] : \A i, j \in 1..Cardinality(S) : s[i] = s[j] => i = j}

\* line 266: [row[0] for row in distinct_artist_ids if row[0]]
AllIds(fetched) == SelectSeq(fetched, Truthy)

\* lines 272-274: the artist_id column of the enriched table, when it exists
ExistingIds(d) == IF d.table_exists THEN Range(d.enriched) ELSE {}

\* variant: the enriched ids are not excluded
MissingIdsAll(all_ids, existing_ids) == all_ids

\* line 276: [aid for aid in all_ids if aid not in existing_ids]
MissingIds(all_ids, existing_ids) ==
    SelectSeq(all_ids, LAMBDA aid : aid \notin existing_ids)

\* lines 277-278: if max_artists: missing_ids = missing_ids[:max_artists]
Truncate(missing_ids, max_artists) ==
    IF max_artists.isNone \/ max_artists.v = 0
      THEN missing_ids
      ELSE SubSeq(missing_ids, 1, Min(max_artists.v, Len(missing_ids)))

NoLimit == [isNone |-> TRUE, v |-> 0]
Limit(n) == [isNone |-> FALSE, v |-> n]

NoDb == [file_exists |-> FALSE, staged |-> <<>>, table_exists |-> FALSE, enriched |-> <<>>]

\* db0 is the database as the run found it
NoRun == [pc |-> "idle", max_artists |-> NoLimit, missing_ids |-> <<>>,
          db0 |-> NoDb, err |-> ""]

\* line 259-260: the DuckDB file is missing
RunNoFile ==
    /\ run.pc = "start"
    /\ ~db.file_exists
    /\ run' = [run EXCEPT !.pc = "raised", !.err = "RuntimeError"]
    /\ UNCHANGED <<env, client, prov, gen, entry, fg, db, dash, orch>>

\* lines 262-282: nothing is missing, the run returns
\* lines 262-289: otherwise the pipeline is run on the resource over missing_ids
RunStart ==
    /\ run.pc = "start"
    /\ db.file_exists
    /\ \E fetched \in Orderings(SelectDistinct(db.staged)) :
          LET missing_ids == Truncate(MissingIds(AllIds(fetched), ExistingIds(db)),
                                      run.max_artists)
              seen == [run EXCEPT !.missing_ids = missing_ids, !.db0 = db]
          IN  IF missing_ids = <<>>
                THEN /\ run' = [seen EXCEPT !.pc = "done"]
                     /\ fg' = fg
                ELSE /\ run' = [seen EXCEPT !.pc = "extract"]
                     /\ fg' = NewFetch(missing_ids)
    /\ UNCHANGED <<env, client, prov, gen, entry, db, dash, orch>>

\* line 289: the resource is exhausted, the pipeline appends what it yielded
RunLoad ==
    /\ run.pc = "extract"
    /\ fg.pc = "done"
    /\ run' = [run EXCEPT !.pc = "done"]
    /\ db' = [db EXCEPT !.table_exists = @ \/ fg.emitted # <<>>,
                        !.enriched = @ \o [i \in 1..Len(fg.emitted) |-> fg.emitted[i].artist_id]]
    /\ UNCHANGED <<env, client, prov, gen, entry, fg, dash, orch>>

\* line 289: the resource raised, pipeline.run raises and nothing is loaded
RunFails ==
    /\ run.pc = "extract"
    /\ fg.pc = "raised"
    /\ run' = [run EXCEPT !.pc = "raised", !.err = fg.err]
    /\ UNCHANGED <<env, client, prov, gen, entry, fg, db, dash, orch>>

RunStep ==
    \/ RunNoFile
    \/ RunStart
    \/ RunLoad
    \/ RunFails

-----------------------------------------------------------------------------
(* The inputs of a run *)

LimitArgs == {-1, 0, 1, 2, 3, 50, 51}
FreeLimitArgs == {0, 2, 51}
DeepLimitArgs == {3, 50}
MinPops == {NoMin, MinPop(0), MinPop(50), MinPop(60)}
FreeMinPops == {NoMin, MinPop(60)}
DeepMinPops == {NoMin, MinPop(50)}
CatalogTotals == {0, 1, 7, 120}

Providers == {[kind |-> "catalog", total |-> t] : t \in CatalogTotals}
FreeProvider == [kind |-> "free", total |-> 0]
DeepProviders ==
    {[kind |-> "catalog", total |-> 10000], [kind |-> "full", total |-> 50000]}

Envs == [id : EnvValues, secret : EnvValues]

\* the argument lists of fetch_artist_genres: all ids different, or two ids
\* taking turns
FetchLens ==
    {n \in 0..(MaxChunks * BatchSize + 1) :
        \E c \in 0..MaxChunks, d \in {-1, 0, 1} : n = c * BatchSize + d}
IdList(n, dup) == [i \in 1..n |-> IF dup THEN ToString(i % 2) ELSE ToString(i)]
FetchInputs == {IdList(n, dup) : n \in FetchLens, dup \in BOOLEAN}

SeqsUpTo(S, n) == UNION {[1..m -> S] : m \in 0..n}
StagedTables == SeqsUpTo({Unset, "", "1", "2"}, MaxStaged)
EnrichedTables == {<<>>, <<"1">>, <<"9">>, <<"1", "1">>}
MaxArtists == {NoLimit, Limit(0), Limit(1)}

Dbs ==
    {NoDb} \cup
    {[file_exists |-> TRUE, staged |-> s, table_exists |-> FALSE, enriched |-> <<>>] :
        s \in StagedTables} \cup
    {[file_exists |-> TRUE, staged |-> s, table_exists |-> TRUE, enriched |-> e] :
        s \in StagedTables, e \in EnrichedTables}

\* no Dagster instance in this run
NoOrch ==
    [dbt |-> FALSE, asset |-> "idle", exc |-> "none", launched |-> 0,
     failed |-> 0,
     events |-> 0, cursor |-> 0, requests |-> <<>>]

\* no dashboard function is called in this run
NoDash == [fn |-> "none", pc |-> "idle"]

NoGen == [NewGen(0, NoMin) EXCEPT !.pc = "idle"]
IdleGens == [g \in Gens |-> NoGen]
\* one invocation of spotify_search_tracks
OneGen(l, m) == [g \in Gens |-> IF g = 1 THEN NewGen(l, m) ELSE NoGen]

InitSearch ==
    /\ entry = "search"
    /\ fg = NoFetch /\ run = NoRun /\ db = NoDb
    /\ \/ /\ prov \in Providers
          /\ \E l \in LimitArgs, m \in MinPops : gen = OneGen(l, m)
       \/ /\ prov = FreeProvider
          /\ \E l \in FreeLimitArgs, m \in FreeMinPops : gen = OneGen(l, m)
       \/ /\ prov \in DeepProviders
          /\ \E l \in DeepLimitArgs, m \in DeepMinPops :
                gen = OneGen(l, m)

InitFetch ==
    /\ entry = "fetch"
    /\ prov = FreeProvider
    /\ gen = IdleGens /\ run = NoRun /\ db = NoDb
    /\ \E ids \in FetchInputs : fg = NewFetch(ids)

InitEnrich ==
    /\ entry = "enrich"
    /\ prov = FreeProvider
    /\ gen = IdleGens /\ fg = NoFetch
    /\ db \in Dbs
    /\ \E m \in MaxArtists : run = [NoRun EXCEPT !.pc = "start", !.max_artists = m]

Init ==
    /\ env \in Envs
    /\ client = FALSE
    /\ dash = NoDash
    /\ orch = NoOrch
    /\ (InitSearch \/ InitFetch \/ InitEnrich)

Next ==
    \/ \E g \in Gens : SearchStep(g)
    \/ FetchStep
    \/ RunStep

Spec == Init /\ [][Next]_vars

-----------------------------------------------------------------------------
(* Two invocations of spotify_search_tracks against a provider whose       *)
(* response is a function of the request: both get the same responses.     *)

PairProviders ==
    {[kind |-> "catalog", total |-> t] : t \in {0, 1, 7}}
        \cup {[kind |-> "full", total |-> 7], [kind |-> "short", total |-> 7]}
PairLimitArgs == {0, 2, 3}

InitPair ==
    /\ env = [id |-> "secret", secret |-> "secret"]
    /\ client = FALSE
    /\ entry = "search"
    /\ fg = NoFetch /\ run = NoRun /\ db = NoDb
    /\ dash = NoDash
    /\ orch = NoOrch
    /\ prov \in PairProviders
    /\ \E l \in PairLimitArgs, m1 \in MinPops, m2 \in {NoMin, MinPop(50)} :
          gen = [g \in Gens |-> IF g = 1 THEN NewGen(l, m1) ELSE NewGen(l, m2)]

NextPair == \E g \in Gens : SearchStep(g)

SpecPair == InitPair /\ [][NextPair]_vars

\* the consumer (the dlt pipeline) exhausts the generators it is given
SpecFair == Spec /\ WF_vars(Next)

-----------------------------------------------------------------------------
(* The dashboard's genre functions (dashboard/spotify_dashboard.py).       *)
(*                                                                         *)
(* A Python string is modelled as the sequence of its characters, so that  *)
(* replace, split, strip and lower are computed as Python computes them.   *)
(* A Python value is a record [tag, s, elems]: tag is the type, s the text *)
(* of a string or of a number, elems the elements of a collection.         *)

\* the characters of the genre fields of the model: a lowercase and an
\* uppercase letter, the whitespace, the separators, the brackets and the
\* quote characters
Chars == {"a", "B", " ", ",", ";", "[", "]", "{", "}", "'", "\""}
Whitespace == {" "}
Quotes == {"'", "\""}
Brackets == {"[", "]", "{", "}"}

\* str.lower on the letters of the model
LowerChar(c) ==
    CASE c = "A" -> "a"
      [] c = "B" -> "b"
      [] c = "N" -> "n"
      [] OTHER -> c
Lower(s) == [i \in 1..Len(s) |-> LowerChar(s[i])]

\* str.strip(chars), and str.strip() which strips whitespace
StripChars(s, cs) ==
    LET keep == {i \in 1..Len(s) : s[i] \notin cs} IN
    IF keep = {} THEN <<>>
    ELSE SubSeq(s, CHOOSE i \in keep : \A j \in keep : i <= j,
                   CHOOSE i \in keep : \A j \in keep : i >= j)
Strip(s) == StripChars(s, Whitespace)

\* str.replace(c, "")
Remove(s, cs) == SelectSeq(s, LAMBDA c : c \notin cs)
\* str.replace(c, d) for single characters
ReplaceChar(s, c, d) == [i \in 1..Len(s) |-> IF s[i] = c THEN d ELSE s[i]]

\* str.split(sep): the pieces between the separators, empty pieces included
RECURSIVE Split(_, _)
Split(s, sep) ==
    IF \E i \in 1..Len(s) : s[i] = sep
      THEN LET i == CHOOSE i \in 1..Len(s) :
                        s[i] = sep /\ \A j \in 1..(i - 1) : s[j] # sep
           IN <<SubSeq(s, 1, i - 1)>> \o Split(SubSeq(s, i + 1, Len(s)), sep)
      ELSE <<s>>

\* sep.join(parts)
RECURSIVE Join(_, _)
Join(parts, sep) ==
    IF parts = <<>> THEN <<>>
    ELSE IF Len(parts) = 1 THEN parts[1]
    ELSE parts[1] \o sep \o Join(Tail(parts), sep)

PyNone == [tag |-> "none", s |-> <<>>, elems |-> <<>>]
PyNaN == [tag |-> "nan", s |-> <<>>, elems |-> <<>>]
PyStr(s) == [tag |-> "str", s |-> s, elems |-> <<>>]
\* a number, by its decimal text
PyNum(digits) == [tag |-> "num", s |-> digits, elems |-> <<>>]
\* a 0-dimensional numpy.ndarray holding a number: tolist() gives the
\* number, which cannot be iterated over
PyArray0(digits) == [tag |-> "ndarray0", s |-> digits, elems |-> <<>>]
\* list, tuple, numpy.ndarray, pandas.Series
PyColl(tag, elems) == [tag |-> tag, s |-> <<>>, elems |-> elems]
PyList(elems) == PyColl("list", elems)

\* str(x) and repr(x)
RECURSIVE Str(_)
RECURSIVE Repr(_)
Str(x) ==
    CASE x.tag = "str" -> x.s
      [] x.tag \in {"num", "ndarray0"} -> x.s
      [] x.tag = "none" -> <<"N", "o", "n", "e">>
      [] x.tag = "nan" -> <<"n", "a", "n">>
      [] x.tag = "list" ->
            <<"[">> \o Join([i \in 1..Len(x.elems) |-> Repr(x.elems[i])],
                           <<",", " ">>) \o <<"]">>
      [] x.tag = "tuple" ->
            <<"(">> \o Join([i \in 1..Len(x.elems) |-> Repr(x.elems[i])],
                           <<",", " ">>)
                  \o (IF Len(x.elems) = 1 THEN <<",">> ELSE <<>>) \o <<")">>
Repr(x) ==
    IF x.tag = "str"
      THEN LET q == IF (\E i \in 1..Len(x.s) : x.s[i] = "'")
                        /\ ~(\E i \in 1..Len(x.s) : x.s[i] = "\"")
                      THEN "\"" ELSE "'"
           IN <<q>> \o x.s \o <<q>>
      ELSE Str(x)

\* a returned list of labels, or an exception leaving the function
Returned(list) == [raised |-> FALSE, list |-> list]
Raises == [raised |-> TRUE, list |-> <<>>]

\* lines 282, 286, 298:
\* [str(x).lower().strip() for x in ... if str(x).strip()]
ElementLabels(elems) ==
    LET kept == SelectSeq(elems, LAMBDA x : Strip(Str(x)) # <<>>) IN
    [i \in 1..Len(kept) |-> Strip(Lower(Str(kept[i])))]

\* lines 290-291: the labels of a string
StringLabels(s) ==
    LET cleaned == Remove(ReplaceChar(s, ";", ","), Brackets)
        pieces == SelectSeq(Split(cleaned, ","), LAMBDA p : Strip(p) # <<>>)
    IN [i \in 1..Len(pieces) |-> Lower(StripChars(Strip(pieces[i]), Quotes))]

\* pd.isna(val) used as a condition: a scalar gives a bool, an array-like
\* gives an array whose truth value raises ValueError
IsNaCondition(val) ==
    CASE val.tag \in {"none", "nan"} -> "true"
      [] val.tag = "series" -> "raises"
      [] OTHER -> "false"

\* list(val): TypeError for a value that is not iterable
Iterable(val) == val.tag \in {"list", "tuple", "ndarray", "series"}

\* the exception of list(val) leaves the function
IterateOrRaise(val) ==
    IF Iterable(val) THEN Returned(ElementLabels(val.elems)) ELSE Raises

\* lines 297-301: iterate over val, or fall back to the scalar's text
IterateOrScalar(val) ==
    IF Iterable(val) THEN Returned(ElementLabels(val.elems))
    ELSE Returned(IF Strip(Str(val)) # <<>>
                    THEN <<Strip(Lower(Str(val)))>> ELSE <<>>)

\* lines 278-301; the TypeError of iterating over the tolist() of a
\* 0-dimensional array is caught at line 287
to_genre_list(val) ==
    IF val.tag \in {"list", "tuple"} THEN Returned(ElementLabels(val.elems))
    ELSE IF val.tag = "ndarray" THEN Returned(ElementLabels(val.elems))
    ELSE IF val.tag = "str" THEN Returned(StringLabels(val.s))
    ELSE IF IsNaCondition(val) = "true" THEN Returned(<<>>)
    ELSE IterateOrScalar(val)

\* the call of to_genre_list(val)
ToGenreListCall ==
    /\ dash.fn = "to_genre_list"
    /\ dash.pc = "call"
    /\ LET r == to_genre_list(dash.val) IN
          dash' = [dash EXCEPT !.pc = IF r.raised THEN "raised" ELSE "returned",
                               !.ret = r]
    /\ UNCHANGED <<env, client, prov, gen, entry, fg, run, db, orch>>

\* to_genre_list applied to the list the first call returned
ToGenreListAgain ==
    /\ dash.fn = "to_genre_list"
    /\ dash.pc = "returned"
    /\ LET labels == dash.ret.list
           r == to_genre_list(PyList([i \in 1..Len(labels) |-> PyStr(labels[i])]))
       IN dash' = [dash EXCEPT !.pc = IF r.raised THEN "raised2" ELSE "returned2",
                               !.again = r]
    /\ UNCHANGED <<env, client, prov, gen, entry, fg, run, db, orch>>

\* a label, or None
NoLabel == [isNone |-> TRUE, s |-> <<>>]
Label(s) == [isNone |-> FALSE, s |-> s]

\* the apostrophes are left in the label
clean_genre_label_keeps_apostrophes(label) ==
    IF label.tag \in {"list", "tuple"} /\ Len(label.elems) = 0 THEN NoLabel
    ELSE LET text == IF label.tag \in {"list", "tuple"}
                       THEN Join([i \in 1..Len(label.elems) |-> Str(label.elems[i])],
                                 <<",">>)
                       ELSE Str(label)
             cleaned == Lower(Strip(Remove(text, Brackets \cup {"\""})))
         IN IF cleaned = <<>> THEN NoLabel ELSE Label(cleaned)

\* lines 304-313
clean_genre_label(label) ==
    IF label.tag \in {"list", "tuple"} /\ Len(label.elems) = 0 THEN NoLabel
    ELSE LET text == IF label.tag \in {"list", "tuple"}
                       THEN Join([i \in 1..Len(label.elems) |-> Str(label.elems[i])],
                                 <<",">>)
                       ELSE Str(label)
             cleaned == Lower(Strip(Remove(Remove(text, Brackets \cup {"\""}),
                                           {"'"})))
         IN IF cleaned = <<>> THEN NoLabel ELSE Label(cleaned)

\* the call of clean_genre_label(label)
CleanGenreLabelCall ==
    /\ dash.fn = "clean_genre_label"
    /\ dash.pc = "call"
    /\ dash' = [dash EXCEPT !.pc = "returned", !.ret = clean_genre_label(dash.val)]
    /\ UNCHANGED <<env, client, prov, gen, entry, fg, run, db, orch>>

-----------------------------------------------------------------------------
(* compute_genre_stats.  A table is the sequence of its rows; a nullable   *)
(* number is a record [isNone, v].  The floats of the result are kept as   *)
(* exact numbers: a quotient is a record [num, den], and the score, a      *)
(* multiple of a square root plus a mean, is the record                    *)
(* [nan, factor, rad, num, den] that stands for factor*sqrt(rad) + num/den *)
(* (nan: the mean of no value, which makes the sum NaN).                   *)

Null == [isNone |-> TRUE, v |-> 0]
Num(v) == [isNone |-> FALSE, v |-> v]

\* line 326: the divisor of pop_weight
PopScale == 100
\* line 338: the factor of the volume weight
VolumeFactor == 25

RECURSIVE SumSeq(_)
SumSeq(s) == IF s = <<>> THEN 0 ELSE Head(s) + SumSeq(Tail(s))

\* line 319: the genre_list column; apply raises if to_genre_list does
GenreListRaises(df) == \E i \in 1..Len(df) : to_genre_list(df[i].genre).raised
WithGenreList(df) ==
    [i \in 1..Len(df) |-> [row |-> df[i], genre_list |-> to_genre_list(df[i].genre).list]]

\* line 320: DataFrame.explode: one row per element of the list, and one
\* row with a missing value for an empty list
ExplodeRow(w) ==
    IF w.genre_list = <<>> THEN <<[row |-> w.row, genre_list |-> NoLabel]>>
    ELSE [j \in 1..Len(w.genre_list) |->
             [row |-> w.row, genre_list |-> Label(w.genre_list[j])]]
Explode(work) == Flatten([i \in 1..Len(work) |-> ExplodeRow(work[i])])

\* lines 321 and 323: notna() & (!= "")
NotEmpty(label) == ~label.isNone /\ label.s # <<>>

\* lines 321-323: the exploded rows with their genre_clean column
Cleaned(exploded) ==
    LET kept == SelectSeq(exploded, LAMBDA e : NotEmpty(e.genre_list))
        cleaned == [i \in 1..Len(kept) |->
                      [row |-> kept[i].row,
                       genre_clean |-> clean_genre_label(PyStr(kept[i].genre_list.s))]]
    IN SelectSeq(cleaned, LAMBDA e : NotEmpty(e.genre_clean))

\* line 326: popularity.fillna(0), the numerator of pop_weight
PopWeight(e) == IF e.row.popularity.isNone THEN 0 ELSE e.row.popularity.v

\* every row of the group is counted as a track
TracksCountRows(group) == Len(group)

\* the artists are counted in place of the tracks
TracksByArtist(group) ==
    Cardinality({group[i].row.main_artist_name : i \in 1..Len(group)})

\* line 330: tracks=("track_id", "nunique")
Tracks(group) == Cardinality({group[i].row.track_id : i \in 1..Len(group)})

\* line 331: artists=("main_artist_name", "nunique")
Artists(group) ==
    Cardinality({group[i].row.main_artist_name : i \in 1..Len(group)})

\* line 332: popularity_score=("pop_weight", "sum")
PopularityScore(group) ==
    [num |-> SumSeq([i \in 1..Len(group) |-> PopWeight(group[i])]), den |-> PopScale]

\* the mean with a null popularity counted as 0
PopMeanNullAsZero(group) ==
    [nan |-> FALSE,
     num |-> SumSeq([i \in 1..Len(group) |-> PopWeight(group[i])]),
     den |-> Len(group)]

\* line 333: pop_mean=("popularity", "mean"): the mean skips the nulls, and
\* the mean of no value is NaN
PopMean(group) ==
    LET vals == SelectSeq(group, LAMBDA e : ~e.row.popularity.isNone) IN
    IF vals = <<>> THEN [nan |-> TRUE, num |-> 0, den |-> 1]
    ELSE [nan |-> FALSE,
          num |-> SumSeq([i \in 1..Len(vals) |-> vals[i].row.popularity.v]),
          den |-> Len(vals)]

\* the volume weight does not grow with the tracks
VolumeWeightFlat(x) == [factor |-> VolumeFactor, rad |-> 1]

\* line 338: math.sqrt(x) * 25
VolumeWeight(x) == [factor |-> VolumeFactor, rad |-> x]

\* line 339: volume_weight + pop_mean
Score(volume_weight, pop_mean) ==
    [nan |-> pop_mean.nan, factor |-> volume_weight.factor,
     rad |-> volume_weight.rad, num |-> pop_mean.num, den |-> pop_mean.den]

\* lines 327-339: one row per genre_clean
GenreStats(cleaned) ==
    {LET group == SelectSeq(cleaned, LAMBDA e : e.genre_clean = g) IN
       [genre_clean |-> g.s,
        tracks |-> Tracks(group),
        artists |-> Artists(group),
        popularity_score |-> PopularityScore(group),
        pop_mean |-> PopMean(group),
        volume_weight |-> VolumeWeight(Tracks(group)),
        score |-> Score(VolumeWeight(Tracks(group)), PopMean(group))] :
     g \in {cleaned[i].genre_clean : i \in 1..Len(cleaned)}}

RECURSIVE GCD(_, _)
GCD(a, b) == IF b = 0 THEN a ELSE GCD(b, a % b)
Abs(n) == IF n < 0 THEN -n ELSE n

\* k*(sqrt(a) - sqrt(b)) >= n for k > 0, by squaring twice
RootsGE(k, a, b, n) ==
    LET d == k * k * (a + b) - n * n IN
    IF a = b THEN 0 >= n
    ELSE IF a > b THEN n <= 0 \/ (d >= 0 /\ d * d >= 4 * k * k * k * k * a * b)
    ELSE n < 0 /\ (d <= 0 \/ d * d <= 4 * k * k * k * k * a * b)

\* x >= y for two scores made with the same factor; a comparison with NaN
\* is false
ScoreGE(x, y) ==
    /\ ~x.nan
    /\ ~y.nan
    /\ LET k0 == x.factor * x.den * y.den
           n0 == y.num * x.den - x.num * y.den
           g == GCD(k0, Abs(n0))
       IN RootsGE(k0 \div g, x.rad, y.rad, n0 \div g)

ScoreGT(x, y) == ~x.nan /\ ~y.nan /\ ~ScoreGE(y, x)

\* line 340: sort_values("score", ascending=False): the rows with a score
\* in descending order, equal scores in any order, and the rows whose
\* score is NaN after them (na_position="last")
SortValues(stats) ==
    {s \in Orderings(stats) :
        \A i, j \in 1..Len(s) :
            i < j => /\ s[i].score.nan => s[j].score.nan
                     /\ ~s[j].score.nan => ScoreGE(s[i].score, s[j].score)}

\* the table returned, or an exception leaving the function
Table(rows) == [raised |-> FALSE, rows |-> rows]
TableRaises == [raised |-> TRUE, rows |-> <<>>]

\* without the guard of lines 324-325 the empty table is not returned
compute_genre_stats_unguarded(df) ==
    IF GenreListRaises(df) THEN {TableRaises}
    ELSE LET cleaned == Cleaned(Explode(WithGenreList(df))) IN
         IF cleaned = <<>> THEN {TableRaises}
         ELSE {Table(s) : s \in SortValues(GenreStats(cleaned))}

\* lines 316-340
compute_genre_stats(df) ==
    IF GenreListRaises(df) THEN {TableRaises}
    ELSE LET cleaned == Cleaned(Explode(WithGenreList(df))) IN
         IF cleaned = <<>> THEN {Table(<<>>)}
         ELSE {Table(s) : s \in SortValues(GenreStats(cleaned))}

\* the genre fields, popularities and track ids of the rows of the model
GenreFields ==
    <<PyNone,
      PyStr(<<"a">>),
      PyStr(<<"B">>),
      PyStr(<<"a", ",", " ", "B">>),
      PyStr(<<"a", ";", "A">>),
      PyStr(<<"'">>),
      PyList(<<PyNone, PyStr(<<"a">>)>>)>>
Popularities == <<Null, Num(75), Num(100)>>
TrackIds == <<"t1", "t2">>
\* the main artist of every track
ArtistsOfTracks == {<<"x", "x">>, <<"x", "y">>}

RowKey(g, p, t) == ((g - 1) * Len(Popularities) + (p - 1)) * Len(TrackIds) + t

\* the caller's table gets one more row; the rows are kept in one order,
\* since no step of compute_genre_stats depends on the order of the rows
AppendRow ==
    /\ dash.fn = "compute_genre_stats"
    /\ dash.pc = "input"
    /\ Len(dash.df) < MaxRows
    /\ \E g \in DOMAIN GenreFields, p \in DOMAIN Popularities, t \in DOMAIN TrackIds :
          /\ RowKey(g, p, t) >= dash.last
          /\ dash' = [dash EXCEPT
                        !.last = RowKey(g, p, t),
                        !.df = Append(@, [genre |-> GenreFields[g],
                                          popularity |-> Popularities[p],
                                          track_id |-> TrackIds[t],
                                          main_artist_name |-> dash.artist_of[t]])]
    /\ UNCHANGED <<env, client, prov, gen, entry, fg, run, db, orch>>

\* the call of compute_genre_stats(df, genre_col)
ComputeGenreStats ==
    /\ dash.fn = "compute_genre_stats"
    /\ dash.pc = "input"
    /\ \E r \in compute_genre_stats(dash.df) :
          dash' = [dash EXCEPT !.pc = IF r.raised THEN "raised" ELSE "returned",
                               !.ret = r]
    /\ UNCHANGED <<env, client, prov, gen, entry, fg, run, db, orch>>

\* the inputs of to_genre_list and clean_genre_label
\* "['B']", "a, ''", "['a','B']" and "a, B;a"
ExampleStrings ==
    {<<"[", "'", "B", "'", "]">>,
     <<"a", ",", " ", "'", "'">>,
     <<"[", "'", "a", "'", ",", "'", "B", "'", "]">>,
     <<"a", ",", " ", "B", ";", "a">>}
GenreStrings == SeqsUpTo(Chars, MaxStrLen) \cup ExampleStrings
ElementStrings ==
    {<<>>, <<" ">>, <<"a">>, <<" ", "B">>, <<"a", " ">>, <<"'", "a">>}
ListElements ==
    {PyStr(s) : s \in ElementStrings}
        \cup {PyNone, PyNaN, PyNum(<<"5">>),
              PyList(<<PyStr(<<"a">>), PyStr(<<"B">>)>>)}
Collections(tags) ==
    {PyColl(tag, e) : tag \in tags, e \in SeqsUpTo(ListElements, MaxListLen)}
Scalars == {PyNone, PyNaN, PyNum(<<"5">>)} \cup {PyStr(s) : s \in GenreStrings}

ToGenreListInputs ==
    Scalars \cup {PyArray0(<<"5">>)}
        \cup Collections({"list", "tuple", "ndarray", "series"})
CleanGenreLabelInputs == Scalars \cup Collections({"list", "tuple"})

InitGenre ==
    /\ env = [id |-> "secret", secret |-> "secret"]
    /\ client = FALSE
    /\ prov = FreeProvider
    /\ entry = "dashboard"
    /\ gen = IdleGens /\ fg = NoFetch /\ run = NoRun /\ db = NoDb
    /\ orch = NoOrch
    /\ \/ \E v \in ToGenreListInputs :
             dash = [fn |-> "to_genre_list", pc |-> "call", val |-> v,
                     ret |-> Returned(<<>>), again |-> Returned(<<>>)]
       \/ \E v \in CleanGenreLabelInputs :
             dash = [fn |-> "clean_genre_label", pc |-> "call", val |-> v,
                     ret |-> NoLabel]
       \/ \E a \in ArtistsOfTracks :
             dash = [fn |-> "compute_genre_stats", pc |-> "input", df |-> <<>>,
                     last |-> 0, artist_of |-> a, ret |-> Table(<<>>)]

NextGenre ==
    \/ ToGenreListCall
    \/ ToGenreListAgain
    \/ CleanGenreLabelCall
    \/ AppendRow
    \/ ComputeGenreStats

SpecGenre == InitGenre /\ [][NextGenre]_vars

-----------------------------------------------------------------------------
(* The orchestration (orchestration/): the asset load_spotify_to_duckdb,   *)
(* run by the job ingest_spotify, and the asset sensor                     *)
(* trigger_dbt_after_ingest that requests runs of the job run_dbt.         *)
(* Dagster is the environment: it records a materialization event of an    *)
(* asset when the asset's function returns and none when it raises, and it *)
(* calls an asset sensor with the latest materialization event after the   *)
(* sensor's cursor, when there is one, and then moves the cursor to it.    *)
(* Events are numbered from 1; cursor 0 stands for the unset cursor.       *)

\* a run of ingest_spotify is launched (by schedule_ingest or by hand) and
\* the asset's function is entered (spotify_assets.py lines 20-69)
IngestLaunch ==
    /\ entry = "orchestration"
    /\ orch.asset = "idle"
    /\ orch.launched < MaxIngests
    /\ orch' = [orch EXCEPT !.asset = "run_pipeline", !.launched = @ + 1]
    /\ UNCHANGED <<env, client, prov, gen, entry, fg, run, db, dash>>

\* lines 67-77: run_pipeline returns for the only market
PipelineReturns ==
    /\ orch.asset = "run_pipeline"
    /\ orch' = [orch EXCEPT !.asset = "run_artist_enrichment"]
    /\ UNCHANGED <<env, client, prov, gen, entry, fg, run, db, dash>>

\* lines 69, 79: run_pipeline raises
PipelineRaises ==
    /\ orch.asset = "run_pipeline"
    /\ orch' = [orch EXCEPT !.asset = "except", !.exc = "run_pipeline"]
    /\ UNCHANGED <<env, client, prov, gen, entry, fg, run, db, dash>>

\* lines 78, 83-84: run_artist_enrichment returns and the asset's function
\* returns its result
EnrichmentReturns ==
    /\ orch.asset = "run_artist_enrichment"
    /\ orch' = [orch EXCEPT !.asset = "returned"]
    /\ UNCHANGED <<env, client, prov, gen, entry, fg, run, db, dash>>

\* lines 78-79: run_artist_enrichment raises
EnrichmentRaises ==
    /\ orch.asset = "run_artist_enrichment"
    /\ orch' = [orch EXCEPT !.asset = "except",
                            !.exc = "run_artist_enrichment"]
    /\ UNCHANGED <<env, client, prov, gen, entry, fg, run, db, dash>>

\* variant: the exception is logged and the success result is returned
ExceptSwallows ==
    /\ orch.asset = "except"
    /\ orch' = [orch EXCEPT !.asset = "returned", !.exc = "none"]
    /\ UNCHANGED <<env, client, prov, gen, entry, fg, run, db, dash>>

\* lines 79-81: the exception is logged and raised again; the step fails
\* and no materialization is recorded
ExceptReraises ==
    /\ orch.asset = "except"
    /\ orch' = [orch EXCEPT !.asset = "idle", !.exc = "none",
                            !.failed = @ + 1]
    /\ UNCHANGED <<env, client, prov, gen, entry, fg, run, db, dash>>

\* the function has returned: Dagster records the materialization
Materialize ==
    /\ orch.asset = "returned"
    /\ orch' = [orch EXCEPT !.asset = "idle", !.events = @ + 1]
    /\ UNCHANGED <<env, client, prov, gen, entry, fg, run, db, dash>>

\* spotify_sensors.py lines 7-19: a tick of the asset sensor with a
\* materialization after the cursor: one RunRequest for run_dbt with
\* run_key = context.cursor; the sensor exists only if job_dbt does
SensorTick ==
    /\ orch.dbt
    /\ orch.events > orch.cursor
    /\ orch' = [orch EXCEPT
                   !.requests = Append(@, [run_key |-> orch.cursor,
                                           asset_event |-> orch.events]),
                   !.cursor = orch.events]
    /\ UNCHANGED <<env, client, prov, gen, entry, fg, run, db, dash>>

InitOrch ==
    /\ env = [id |-> "secret", secret |-> "secret"]
    /\ client = FALSE
    /\ prov = FreeProvider
    /\ entry = "orchestration"
    /\ gen = IdleGens /\ fg = NoFetch /\ run = NoRun /\ db = NoDb
    /\ dash = NoDash
    /\ \E d \in BOOLEAN : orch = [NoOrch EXCEPT !.dbt = d]

NextOrch ==
    \/ IngestLaunch
    \/ PipelineReturns
    \/ PipelineRaises
    \/ EnrichmentReturns
    \/ EnrichmentRaises
    \/ ExceptReraises
    \/ Materialize
    \/ SensorTick

SpecOrch == InitOrch /\ [][NextOrch]_vars

-----------------------------------------------------------------------------
(* Properties of spotify_search_tracks *)

Started(s) == s.pc \notin {"idle", "new", "start"}

C1_Case(s) ==
    /\ Started(s)
    /\ prov.kind = "catalog"
    /\ prov.total <= MaxTotal
    /\ s.min_popularity.isNone

\* C1 (as amended): with min_popularity=None, page size L and a provider that
\* reports a constant total T <= 10,000 and returns min(L, T - offset) items
\* per page, the k-th search request has offset (k-1)*L, there are never more
\* than max(1, ceil(T/L)) requests, and a run that ends normally has issued
\* exactly max(1, ceil(T/L)) requests and yielded exactly T items.
C1_PaginationExact ==
    \A g \in Gens :
        LET s == gen[g] IN
        C1_Case(s) =>
            /\ s.nreq <= Max(1, CeilDiv(prov.total, s.limit))
            /\ s.nreq > 0 => s.reqOffset = (s.nreq - 1) * s.limit
            /\ s.pc = "done" =>
                  /\ s.nreq = Max(1, CeilDiv(prov.total, s.limit))
                  /\ s.nYielded = prov.total

\* C1 as stated: exactly ceil(T/L) requests, also for T = 0.
C1_Original ==
    \A g \in Gens :
        LET s == gen[g] IN
        C1_Case(s) =>
            /\ s.nreq > 0 => s.reqOffset = (s.nreq - 1) * s.limit
            /\ s.pc = "done" =>
                  /\ s.nreq = CeilDiv(prov.total, s.limit)
                  /\ s.nYielded = prov.total

\* L = 50, T = 120: three requests, the last at offset 100, 120 items
C1_Witness ==
    /\ prov = [kind |-> "catalog", total |-> 120]
    /\ gen[1].pc = "done"
    /\ gen[1].min_popularity.isNone
    /\ gen[1].limit = 50
    /\ gen[1].nreq = 3
    /\ gen[1].reqOffset = 100
    /\ gen[1].nYielded = 120

\* C2: no search request has an offset >= 10,000, whatever the provider
\* reports and returns; with page size 50, always-full pages and a reported
\* total of 10,000 or more, a run that ends normally has issued exactly 200
\* requests, the last at offset 9,950.
C2_NeverBeyondCap ==
    \A g \in Gens :
        LET s == gen[g] IN
        /\ s.nreq > 0 => s.reqOffset < MaxTotal
        /\ s.pc = "request" => s.offset < MaxTotal
        /\ (prov.kind = "full" /\ prov.total >= MaxTotal /\ s.limit = 50 /\ s.pc = "done") =>
              /\ s.nreq = 200
              /\ s.reqOffset = 9950

C2_Witness ==
    /\ prov = [kind |-> "full", total |-> 50000]
    /\ gen[1].pc = "done"
    /\ gen[1].limitArg = 50
    /\ gen[1].nreq = 200
    /\ gen[1].reqOffset = 9950
    /\ gen[1].offset = MaxTotal

\* what one step of invocation g does at the end of a page
C3_StepRule(g) ==
    LET s == gen[g]
        t == gen'[g]
    IN  /\ (s.pc = "request" /\ t.pc # "request" /\ t.pc # "raised") =>
              /\ t.pc \in {"done", "items"}
              /\ (t.pc = "done") <=> (t.items = <<>>)
              /\ t.offset = s.offset
        /\ (s.pc = "items" /\ s.idx = Len(s.items) /\ t # s) =>
              /\ t.offset = s.offset + s.limit
              /\ (t.pc = "done") <=> (t.offset >= s.total \/ t.offset >= MaxTotal)
              /\ t.pc # "done" => (t.pc = "request" /\ t.offset > s.offset)

\* C3: after a page the loop stops if and only if the page had no items, or
\* the advanced offset is >= the total that page reported, or the advanced
\* offset is >= 10,000, and otherwise it goes on to request the next page at
\* a strictly larger offset; it issues at most ceil(10,000 / L) requests, L
\* the clamped page size; and every invocation whose consumer keeps pulling
\* comes to an end.
C3_Terminates ==
    /\ [][\A g \in Gens : C3_StepRule(g)]_vars
    /\ [](\A g \in Gens : Started(gen[g]) =>
              /\ gen[g].limit \in 1..PageMax
              /\ gen[g].nreq <= CeilDiv(MaxTotal, gen[g].limit))
    /\ <>(\A g \in Gens : gen[g].pc \in {"idle", "done", "raised"})

\* the loop went on after a full page and later stopped at the ceiling
C3_Witness ==
    /\ gen[1].pc = "done"
    /\ gen[1].limit = 3
    /\ gen[1].nreq = CeilDiv(MaxTotal, 3)
    /\ gen[1].offset >= MaxTotal
    /\ gen[1].offset < gen[1].total

C4_Filter(items, m) == SelectSeq(items, LAMBDA t : m.isNone \/ t.popularity >= m.v)

\* C4: at every moment the items yielded from the current page are exactly
\* the items of the page handled so far whose popularity is >= min_popularity
\* (all of them when min_popularity is None), in the page's order; so when
\* the page is exhausted they are exactly the page's passing items.
C4_YieldedAreFiltered ==
    \A g \in Gens :
        LET s == gen[g] IN
        s.pageYielded = C4_Filter(SubSeq(s.items, 1, s.idx), s.min_popularity)

\* a page with popularities 10, 60, 90 and min_popularity = 50
C4_Witness ==
    /\ gen[1].pc = "items"
    /\ gen[1].min_popularity = MinPop(50)
    /\ Len(gen[1].items) = 3
    /\ gen[1].idx = 3
    /\ [i \in 1..3 |-> gen[1].items[i].popularity] = <<10, 60, 90>>
    /\ gen[1].pageYielded = <<gen[1].items[2], gen[1].items[3]>>

\* C5 (two invocations that differ only in min_popularity, against a
\* provider whose response is a function of the request): in each
\* invocation the k-th request has offset (k-1)*L and limit L whatever is
\* filtered out; an invocation that has ended normally has issued at least
\* as many requests as the other one; and when both have ended normally they
\* have issued the same number of requests and stand at the same offset.
C5_SameRequests ==
    /\ \A g \in Gens :
          gen[g].nreq > 0 =>
              /\ gen[g].reqOffset = (gen[g].nreq - 1) * gen[g].limit
              /\ gen[g].reqLimit = gen[g].limit
    /\ \A g, h \in Gens :
          gen[g].pc = "done" =>
              /\ gen[h].nreq <= gen[g].nreq
              /\ gen[h].pc = "done" =>
                    /\ gen[h].nreq = gen[g].nreq
                    /\ gen[h].reqOffset = gen[g].reqOffset
                    /\ gen[h].offset = gen[g].offset

\* the filtering invocation yielded fewer items over the same requests
C5_Witness ==
    /\ prov = [kind |-> "catalog", total |-> 7]
    /\ gen[1].pc = "done" /\ gen[2].pc = "done"
    /\ gen[1].min_popularity = MinPop(50) /\ gen[2].min_popularity.isNone
    /\ gen[1].limit = 3
    /\ gen[1].nreq = 3 /\ gen[2].nreq = 3
    /\ gen[1].nYielded = 4 /\ gen[2].nYielded = 7

\* C6: a search call that raises ends the invocation: the invocation rests
\* in the raised state with the provider's error, no step of it is possible
\* any more (no retry, no further request), the failing call yields nothing,
\* and the count of items handed to the consumer never goes down.
C6_FailurePropagates ==
    /\ [](\A g \in Gens :
              gen[g].err = "ProviderError" =>
                  (gen[g].pc = "raised" /\ ~ENABLED SearchStep(g)))
    /\ [][\A g \in Gens :
              /\ gen'[g].nYielded >= gen[g].nYielded
              /\ (gen[g].pc = "request" /\ gen'[g].err = "ProviderError") =>
                    /\ gen'[g].pc = "raised"
                    /\ gen'[g].nYielded = gen[g].nYielded
                    /\ gen'[g].nreq = gen[g].nreq + 1]_vars

\* a later page's request failed after items of earlier pages were yielded
C6_Witness ==
    /\ gen[1].pc = "raised"
    /\ gen[1].err = "ProviderError"
    /\ gen[1].nreq = 3
    /\ gen[1].nYielded > 0

CredentialsMissing == ~(Truthy(env.id) /\ Truthy(env.secret))

\* C7: when SPOTIPY_CLIENT_ID or SPOTIPY_CLIENT_SECRET is unset or empty,
\* spotify_search_tracks and fetch_artist_genres never get past their start:
\* they rest before it or have raised RuntimeError, and no search request
\* and no artists lookup has been issued.
C7_FailFast ==
    CredentialsMissing =>
        /\ \A g \in Gens :
              /\ gen[g].pc \in {"idle", "new", "start", "raised"}
              /\ gen[g].pc = "raised" => gen[g].err = "RuntimeError"
              /\ gen[g].nreq = 0
        /\ fg.pc \in {"idle", "new", "start", "raised"}
        /\ fg.pc = "raised" => fg.err = "RuntimeError"
        /\ fg.lookups = <<>>

\* the secret is set but the client id is empty
C7_Witness ==
    /\ env = [id |-> "", secret |-> "secret"]
    /\ gen[1].pc = "raised"
    /\ gen[1].err = "RuntimeError"
    /\ gen[1].nreq = 0

-----------------------------------------------------------------------------
(* Properties of fetch_artist_genres and run_artist_enrichment *)

IsPrefix(p, s) == Len(p) <= Len(s) /\ SubSeq(s, 1, Len(p)) = p

\* C8: every bulk lookup carries between 1 and 50 ids, the looked-up id lists
\* in call order concatenate to a prefix of the input list, and when the
\* generator has returned there were exactly ceil(n/50) lookups whose
\* concatenation is the input list, repeated ids included.
C8_Chunks ==
    /\ \A i \in 1..Len(fg.lookups) : Len(fg.lookups[i]) \in 1..50
    /\ IsPrefix(Flatten(fg.lookups), fg.artist_ids)
    /\ fg.pc = "done" =>
          /\ Len(fg.lookups) = CeilDiv(Len(fg.artist_ids), 50)
          /\ Flatten(fg.lookups) = fg.artist_ids

\* 101 ids, the same id at positions 1 and 3: three lookups of 50, 50 and 1
C8_Witness ==
    /\ fg.pc = "done"
    /\ Len(fg.artist_ids) = 101
    /\ fg.artist_ids[1] = fg.artist_ids[3]
    /\ Len(fg.lookups) = 3
    /\ Len(fg.lookups[3]) = 1

C9_NonNull(artists) == SelectSeq(artists, LAMBDA a : ~a.isNull)

C9_Emitted ==
    LET nn == C9_NonNull(SubSeq(fg.artists, 1, fg.idx)) IN
    /\ fg.chunkEmitted = [i \in 1..Len(nn) |-> [artist_id |-> nn[i].id]]
    /\ fg.pc = "done" => Len(fg.lookups) = CeilDiv(Len(fg.artist_ids), BatchSize)

\* C9: the records emitted for the current chunk are, in response order, one
\* per non-null entry of the part of the response handled so far; handling
\* an entry, null or not, or a null or empty response never raises and
\* never ends the generator; and a generator that has returned has looked
\* up every chunk.
C9_OnePerNonNull ==
    /\ []C9_Emitted
    /\ [][fg.pc = "artists" => fg'.pc \in {"artists", "yielded", "loop"}]_vars

\* the first chunk's response was null or empty, the second chunk is looked
\* up, its first entry is null and its second entry is emitted
C9_Witness ==
    /\ fg.pc = "yielded"
    /\ fg.k = 2
    /\ fg.idx = 2
    /\ fg.artists[1].isNull
    /\ fg.emitted = <<[artist_id |-> fg.artists[2].id]>>

C10_Staged(d) == {id \in Range(d.staged) : id # Unset /\ id # ""}
C10_Enriched(d) == IF d.table_exists THEN Range(d.enriched) ELSE {}
C10_Difference(d) == C10_Staged(d) \ C10_Enriched(d)
C10_Requested == UNION {Range(fg.lookups[i]) : i \in 1..Len(fg.lookups)}

-----------------------------------------------------------------------------
(* C11 *)

C11_EmittedIds == {fg.emitted[i].artist_id : i \in 1..Len(fg.emitted)}

\* the ids of the chunks looked up before the last one
C11_EarlierIds == Range(Flatten(SubSeq(fg.lookups, 1, Len(fg.lookups) - 1)))

\* C11: when the lookup of chunk k fails the generator raises at once and
\* the failed chunk is the last one looked up; the records emitted so far
\* stay emitted and all come from chunks 1..k-1; and once raised, no record
\* is emitted and no chunk is looked up any more.
C11_FailureStopsFetch ==
    /\ [][fg.err = "" /\ fg'.err = "ProviderError" =>
              /\ fg'.pc = "raised"
              /\ fg'.emitted = fg.emitted
              /\ Len(fg'.lookups) = fg'.k]_vars
    /\ [][fg.err = "ProviderError" =>
              /\ fg'.pc = "raised"
              /\ fg'.emitted = fg.emitted
              /\ fg'.lookups = fg.lookups]_vars
    /\ [](fg.err = "ProviderError" => C11_EmittedIds \subseteq C11_EarlierIds)

\* the lookup of the second chunk failed after the first chunk's records
\* were emitted, and a third chunk was still to come
C11_Witness ==
    /\ fg.pc = "raised"
    /\ fg.err = "ProviderError"
    /\ fg.k = 2
    /\ Len(fg.lookups) = 2
    /\ Len(fg.emitted) > 0
    /\ Len(Batch(fg.artist_ids, BatchSize)) = 3

-----------------------------------------------------------------------------
(* Properties of to_genre_list and clean_genre_label *)

\* C12: to_genre_list returns a list and never raises, whatever the shape of
\* its input (None, NaN, a string, a list or tuple, an array, a Series, a
\* bare number, a nested list), also when it is applied to its own result;
\* None and NaN give the empty list, and so does the empty string.
C12_NeverRaises ==
    dash.fn = "to_genre_list" =>
        /\ dash.pc \notin {"raised", "raised2"}
        /\ ~dash.ret.raised
        /\ dash.pc = "returned" /\ dash.val \in {PyNone, PyNaN, PyStr(<<>>)} =>
              dash.ret.list = <<>>

\* a bare number falls through to the scalar fallback and gives its text
C12_Witness ==
    /\ dash.fn = "to_genre_list"
    /\ dash.pc = "returned"
    /\ dash.val = PyNum(<<"5">>)
    /\ dash.ret = Returned(<< <<"5">> >>)

\* C13: the second pass over the list returned by to_genre_list gives the
\* same labels as the first pass (already as sets of labels).
C13_Idempotent ==
    dash.fn = "to_genre_list" /\ dash.pc = "returned2" =>
        Range(dash.again.list) = Range(dash.ret.list)

\* the labels of a string as C14 words them: every piece trimmed of
\* whitespace and of quote characters and lowercased, then the empty
\* pieces dropped
C14_Pieces(s) ==
    LET all == Split(Remove(ReplaceChar(s, ";", ","), Brackets), ",")
        labels == [i \in 1..Len(all) |-> Lower(StripChars(Strip(all[i]), Quotes))]
    IN SelectSeq(labels, LAMBDA l : l # <<>>)

\* C14: for a string, to_genre_list returns the trimmed, unquoted,
\* lowercased pieces in order, the empty ones dropped, so that every
\* returned element is a non-empty string.
C14_StringPieces ==
    dash.fn = "to_genre_list" /\ dash.pc = "returned" /\ dash.val.tag = "str" =>
        /\ dash.ret.list = C14_Pieces(dash.val.s)
        /\ \A i \in 1..Len(dash.ret.list) : dash.ret.list[i] # <<>>

\* C15: clean_genre_label returns None or a non-empty, lowercase,
\* whitespace-trimmed string without any of the characters [ ] { } " ';
\* "" and an empty collection give None.
C15_CleanLabel ==
    dash.fn = "clean_genre_label" /\ dash.pc = "returned" =>
        /\ ~dash.ret.isNone =>
              /\ dash.ret.s # <<>>
              /\ Lower(dash.ret.s) = dash.ret.s
              /\ Strip(dash.ret.s) = dash.ret.s
              /\ Range(dash.ret.s) \cap (Brackets \cup Quotes) = {}
        /\ dash.val = PyStr(<<>>) => dash.ret.isNone
        /\ dash.val.tag \in {"list", "tuple"} /\ dash.val.elems = <<>> =>
              dash.ret.isNone
        /\ dash.val = PyStr(<<" ", "B", " ">>) => dash.ret = Label(<<"b">>)

\* "['B']" gives "b"
C15_Witness ==
    /\ dash.fn = "clean_genre_label"
    /\ dash.pc = "returned"
    /\ dash.val = PyStr(<<"[", "'", "B", "'", "]">>)
    /\ dash.ret = Label(<<"b">>)

-----------------------------------------------------------------------------
(* Properties of compute_genre_stats *)

\* the cleaned labels of an input row, in order, repeated labels included
CleanLabels(row) ==
    LET raw == to_genre_list(row.genre).list
        cleaned == [i \in 1..Len(raw) |-> clean_genre_label(PyStr(raw[i]))]
        kept == SelectSeq(cleaned, LAMBDA l : ~l.isNone /\ l.s # <<>>)
    IN [i \in 1..Len(kept) |-> kept[i].s]

StatsReturned == dash.fn = "compute_genre_stats" /\ dash.pc = "returned"

\* the sum of tracks over the returned rows
SumTracks == SumSeq([i \in 1..Len(dash.ret.rows) |-> dash.ret.rows[i].tracks])

\* C16: every cleaned label of every input row has a row in the result, and
\* the tracks of a genre row is the number of distinct track_id values of
\* the input rows whose cleaned labels contain the genre.
C16_FanOut ==
    StatsReturned =>
        /\ \A j \in 1..Len(dash.df) : \A g \in Range(CleanLabels(dash.df[j])) :
              \E i \in 1..Len(dash.ret.rows) : dash.ret.rows[i].genre_clean = g
        /\ \A i \in 1..Len(dash.ret.rows) :
              dash.ret.rows[i].tracks =
                  Cardinality({dash.df[j].track_id :
                                  j \in {k \in 1..Len(dash.df) :
                                           dash.ret.rows[i].genre_clean
                                               \in Range(CleanLabels(dash.df[k]))}})

\* one track with the genre field "a, B": a row for a and a row for b with
\* tracks = 1 each
C16_Witness ==
    /\ StatsReturned
    /\ Len(dash.df) = 1
    /\ dash.df[1].genre = PyStr(<<"a", ",", " ", "B">>)
    /\ {dash.ret.rows[i].genre_clean : i \in 1..Len(dash.ret.rows)}
           = {<<"a">>, <<"b">>}
    /\ \A i \in 1..Len(dash.ret.rows) : dash.ret.rows[i].tracks = 1

\* C17 as stated: the sum of tracks over the returned rows is at least the
\* number of distinct track_id values of the input table.
C17_Original ==
    StatsReturned =>
        SumTracks >= Cardinality({dash.df[j].track_id : j \in 1..Len(dash.df)})

\* C17: the sum of tracks over the returned rows is at least the number of
\* distinct track_id values of the input rows that have a cleaned label.
C17_SumCoversLabelled ==
    StatsReturned =>
        SumTracks >= Cardinality({dash.df[j].track_id :
                                     j \in {k \in 1..Len(dash.df) :
                                              CleanLabels(dash.df[k]) # <<>>}})

\* a track with two labels and another track without a genre: the sum of
\* tracks is 2, one track is labelled, the table has two tracks
C17_Witness ==
    /\ StatsReturned
    /\ Len(dash.df) = 2
    /\ dash.df[1].genre = PyNone
    /\ Len(CleanLabels(dash.df[2])) = 2
    /\ dash.df[1].track_id # dash.df[2].track_id
    /\ SumTracks = 2

\* C18: volume_weight is 25 * sqrt(tracks), score is volume_weight +
\* pop_mean, and of two genre rows with equal pop_mean the one with strictly
\* more tracks has the strictly higher score.
C18_Monotone ==
    StatsReturned =>
        \A i, j \in 1..Len(dash.ret.rows) :
            LET x == dash.ret.rows[i]
                y == dash.ret.rows[j]
            IN /\ x.volume_weight = [factor |-> 25, rad |-> x.tracks]
               /\ x.score = [nan |-> x.pop_mean.nan, factor |-> 25, rad |-> x.tracks,
                              num |-> x.pop_mean.num, den |-> x.pop_mean.den]
               /\ (/\ ~x.pop_mean.nan
                    /\ ~y.pop_mean.nan
                    /\ x.pop_mean.num * y.pop_mean.den = y.pop_mean.num * x.pop_mean.den
                    /\ x.tracks > y.tracks)
                     => ScoreGT(x.score, y.score)

\* two genres with the same pop_mean, one with two tracks and one with one
C18_Witness ==
    /\ StatsReturned
    /\ Len(dash.ret.rows) = 2
    /\ dash.ret.rows[1].tracks = 2
    /\ dash.ret.rows[2].tracks = 1
    /\ dash.ret.rows[1].pop_mean = [nan |-> FALSE, num |-> 75, den |-> 1]
    /\ dash.ret.rows[2].pop_mean = [nan |-> FALSE, num |-> 75, den |-> 1]

\* C19: in the returned table the score of every row is >= the score of the
\* row after it.
C19_Descending ==
    StatsReturned =>
        \A i \in 1..(Len(dash.ret.rows) - 1) :
            ScoreGE(dash.ret.rows[i].score, dash.ret.rows[i + 1].score)

\* how many exploded rows of the genre g the input row has
C20_Times(row, g) == Len(SelectSeq(CleanLabels(row), LAMBDA l : l = g))

\* C20: popularity_score of a genre is the sum of popularity / 100 over its
\* exploded rows, a null popularity counted as 0; pop_mean is the mean of
\* popularity over its exploded rows with a non-null popularity.
C20_Popularity ==
    StatsReturned =>
        \A i \in 1..Len(dash.ret.rows) :
            LET x == dash.ret.rows[i]
                times == [j \in 1..Len(dash.df) |-> C20_Times(dash.df[j], x.genre_clean)]
                total == SumSeq([j \in 1..Len(dash.df) |->
                                   IF dash.df[j].popularity.isNone THEN 0
                                   ELSE times[j] * dash.df[j].popularity.v])
                count == SumSeq([j \in 1..Len(dash.df) |->
                                   IF dash.df[j].popularity.isNone THEN 0 ELSE times[j]])
            IN /\ x.popularity_score.num * 100 = total * x.popularity_score.den
               /\ count > 0 =>
                     /\ ~x.pop_mean.nan
                     /\ x.pop_mean.num * count = total * x.pop_mean.den

\* a genre with the popularities 75 and null: popularity_score 0.75,
\* pop_mean 75
C20_Witness ==
    /\ StatsReturned
    /\ Len(dash.df) = 2
    /\ dash.df[1].popularity = Null
    /\ dash.df[2].popularity = Num(75)
    /\ Len(dash.ret.rows) = 1
    /\ dash.ret.rows[1].popularity_score = [num |-> 75, den |-> 100]
    /\ dash.ret.rows[1].pop_mean = [nan |-> FALSE, num |-> 75, den |-> 1]

\* C21: when no input row has a non-empty cleaned label, in particular when
\* every genre field is None, compute_genre_stats returns the empty table;
\* and compute_genre_stats never raises.
C21_EmptyTable ==
    dash.fn = "compute_genre_stats" =>
        /\ dash.pc # "raised"
        /\ ~dash.ret.raised
        /\ (dash.pc = "returned"
               /\ \A j \in 1..Len(dash.df) : CleanLabels(dash.df[j]) = <<>>)
              => dash.ret.rows = <<>>

\* a table of two rows, one with the genre field None and one whose genre
\* field "'" cleans to nothing, gives the empty table
C21_Witness ==
    /\ StatsReturned
    /\ Len(dash.df) = 2
    /\ dash.df[1].genre = PyNone
    /\ dash.df[2].genre = PyStr(<<"'">>)
    /\ dash.ret = Table(<<>>)

-----------------------------------------------------------------------------
(* Further properties of spotify_search_tracks *)

\* the request offsets of one invocation run alone with page size L against
\* a provider whose response is a function of the request
RECURSIVE C22_SoloOffsets(_, _, _)
C22_SoloOffsets(p, L, offset) ==
    LET r == CHOOSE r \in SearchResponses(p, offset, L) : TRUE IN
    IF r.items = <<>> \/ LoopBreaks(offset + L, r.total)
      THEN <<offset>>
      ELSE <<offset>> \o C22_SoloOffsets(p, L, offset + L)

C22_AsAlone(g) ==
    LET L == ClampLimit(gen[g].limitArg)
        solo == C22_SoloOffsets(prov, L, 0)
    IN /\ gen[g].nreq = 1 => gen[g].reqOffset = 0
       /\ gen[g].nreq >= 1 =>
             /\ gen[g].nreq <= Len(solo)
             /\ gen[g].reqOffset = solo[gen[g].nreq]
             /\ gen[g].reqLimit = L
       /\ gen[g].pc = "done" => gen[g].nreq = Len(solo)

\* C22: of two invocations whose steps interleave, each starts at offset 0
\* and issues the requests it issues when run alone (all of them when it
\* runs to its end), and a step of one invocation leaves the other
\* invocation, its offset included, unchanged.
C22_Independent ==
    /\ [](\A g \in Gens : C22_AsAlone(g))
    /\ [][\A g \in Gens : gen'[g] # gen[g] =>
              \A h \in Gens \ {g} : gen'[h] = gen[h]]_vars

\* both invocations are under way: the first is at its second page and the
\* second, with another popularity filter, still at its first
C22_Witness ==
    /\ gen[1].nreq = 2
    /\ gen[1].pc = "yielded"
    /\ gen[2].nreq = 1
    /\ gen[2].pc = "items"
    /\ gen[2].idx = 1
    /\ gen[1].min_popularity # gen[2].min_popularity
    /\ gen[1].offset # gen[2].offset

\* C23: a search request after the first is issued only when every passing
\* item of the page before has been yielded, in order; and a generator that
\* rests at a yield (or was never pulled) moves only by the consumer's pull,
\* which issues no request by itself.
C23_Backpressure ==
    /\ [][\A g \in Gens :
              gen'[g].nreq # gen[g].nreq /\ gen[g].nreq >= 1 =>
                  /\ gen[g].idx = Len(gen[g].items)
                  /\ gen[g].pageYielded =
                        SelectSeq(gen[g].items,
                                  LAMBDA t : gen[g].min_popularity.isNone
                                               \/ t.popularity >= gen[g].min_popularity.v)]_vars
    /\ [][\A g \in Gens :
              gen[g].pc \in {"new", "yielded"} /\ gen'[g] # gen[g] =>
                  /\ gen'[g].nreq = gen[g].nreq
                  /\ gen'[g] = [gen[g] EXCEPT
                                  !.pc = IF @ = "new" THEN "start" ELSE "items"]]_vars
    /\ [](\A g \in Gens : gen[g].pc \in {"new", "yielded"} => ~ENABLED Request(g))

\* the second page has just been requested, after the two passing items of
\* the first page of three were yielded
C23_Witness ==
    /\ gen[1].nreq = 2
    /\ gen[1].pc = "items"
    /\ gen[1].idx = 0
    /\ gen[1].reqOffset = 3
    /\ gen[1].nYielded = 2
    /\ ~gen[1].min_popularity.isNone

\* C24: every search request carries limit = max(1, min(limit argument, 50)),
\* which lies in 1..50, and the offset of every request after the first is
\* the offset of the request before plus this limit.
C24_ClampedLimit ==
    /\ [](\A g \in Gens : gen[g].nreq >= 1 =>
              /\ gen[g].reqLimit = Max(1, Min(gen[g].limitArg, 50))
              /\ gen[g].reqLimit \in 1..50)
    /\ [][\A g \in Gens :
              gen'[g].nreq # gen[g].nreq =>
                  /\ gen'[g].nreq = gen[g].nreq + 1
                  /\ gen'[g].reqOffset =
                        IF gen[g].nreq = 0 THEN 0
                        ELSE gen[g].reqOffset + Max(1, Min(gen[g].limitArg, 50))]_vars

\* limit argument 0: the second request has limit 1 and offset 1
C24_Witness ==
    /\ gen[1].limitArg = 0
    /\ gen[1].nreq = 2
    /\ gen[1].reqLimit = 1
    /\ gen[1].reqOffset = 1

\* C25: a dbt run is requested only for a materialization of
\* load_spotify_to_duckdb that no earlier request answered, and there are
\* exactly as many materializations as ingests in which run_pipeline and
\* run_artist_enrichment both returned; an ingest in which either raised
\* goes through the except clause to a failed run, with no materialization
\* and no run request on the way
C25_RequestsFollowIngest ==
    /\ [](/\ orch.events + orch.failed
                + (IF orch.asset = "idle" THEN 0 ELSE 1) = orch.launched
           /\ Len(orch.requests) <= orch.events
           /\ \A i \in 1..Len(orch.requests) :
                 /\ orch.requests[i].asset_event \in 1..orch.events
                 /\ orch.requests[i].run_key < orch.requests[i].asset_event
                 /\ \A j \in 1..(i - 1) :
                       orch.requests[j].asset_event
                           < orch.requests[i].asset_event
           /\ ~orch.dbt => orch.requests = <<>>)
    /\ [][/\ orch'.requests # orch.requests =>
               /\ orch.events > orch.cursor
               /\ orch'.events = orch.events
               /\ orch'.requests[Len(orch'.requests)].asset_event
                      = orch.events
          /\ orch.asset \in {"run_pipeline", "run_artist_enrichment"}
                /\ orch'.asset = "except"
                => orch'.events = orch.events /\ orch'.requests = orch.requests
          /\ orch.asset = "except" /\ orch'.asset # "except"
                => /\ orch'.asset = "idle"
                   /\ orch'.failed = orch.failed + 1
                   /\ orch'.events = orch.events
                   /\ orch'.cursor = orch.cursor
                   /\ orch'.requests = orch.requests]_vars

\* the first ingest failed in run_artist_enrichment, the second succeeded
\* and the sensor requested one dbt run for it
C25_Witness ==
    /\ orch.failed = 1 /\ orch.events = 1 /\ orch.asset = "except"
    /\ orch.exc = "run_artist_enrichment"
    /\ Len(orch.requests) = 1 /\ orch.requests[1].asset_event = 1

\* C26: every search request stays within the first 10,000 positions
\* (offset + clamped limit <= 10,000), and the raw items received in one
\* invocation, the pages before the current one plus the current page,
\* never number more than 10,000
C26_WithinCap ==
    \A g \in Gens :
        /\ gen[g].nreq >= 1 =>
              /\ gen[g].reqLimit \in 1..PageMax
              /\ gen[g].reqOffset + gen[g].reqLimit <= MaxTotal
        /\ gen[g].pc = "items" =>
              gen[g].processed + Len(gen[g].items) <= MaxTotal

\* C27: once run_artist_enrichment has completed without error (here with
\* max_artists unset, as the asset calls it), the next run over the same
\* staged tracks would compute an empty missing_ids, whatever order the
\* staged ids come back in, and so would issue no lookup
C27_Converges ==
    (run.pc = "done" /\ run.max_artists.isNone) =>
        \A fetched \in Orderings(SelectDistinct(db.staged)) :
            Truncate(MissingIds(AllIds(fetched), ExistingIds(db)),
                     run.max_artists) = <<>>

\* C28: every returned row has a defined pop_mean and a defined score, so
\* any two returned rows are comparable by score
C28_Defined ==
    StatsReturned =>
        /\ \A i \in 1..Len(dash.ret.rows) :
              /\ ~dash.ret.rows[i].pop_mean.nan
              /\ ~dash.ret.rows[i].score.nan
        /\ \A i, j \in 1..Len(dash.ret.rows) :
              \/ ScoreGE(dash.ret.rows[i].score, dash.ret.rows[j].score)
              \/ ScoreGE(dash.ret.rows[j].score, dash.ret.rows[i].score)

\* a genre field without its null elements
C29_WithoutNulls(val) ==
    IF Iterable(val)
      THEN [val EXCEPT !.elems = SelectSeq(@, LAMBDA x : x.tag \notin {"none", "nan"})]
      ELSE val

\* C29: to_genre_list returns for a collection what it returns for the
\* collection without its null elements, and every genre row returned by
\* compute_genre_stats is a cleaned label of some input row's genre field
\* taken without its null elements: no row 'none' or 'nan' for a missing
\* value
C29_NullsDropped ==
    /\ (dash.fn = "to_genre_list" /\ dash.pc = "returned") =>
          dash.ret = to_genre_list(C29_WithoutNulls(dash.val))
    /\ StatsReturned =>
          \A i \in 1..Len(dash.ret.rows) :
              /\ dash.ret.rows[i].genre_clean
                     \notin {<<"n", "o", "n", "e">>, <<"n", "a", "n">>}
              /\ \E j \in 1..Len(dash.df) :
                    \E k \in 1..Len(CleanLabels([dash.df[j] EXCEPT
                                     !.genre = C29_WithoutNulls(@)])) :
                        CleanLabels([dash.df[j] EXCEPT
                            !.genre = C29_WithoutNulls(@)])[k]
                          = dash.ret.rows[i].genre_clean

\* C30: popularity_score <= tracks in every returned row (popularities
\* within 0..100)
C30_ScoreAtMostTracks ==
    StatsReturned =>
        \A i \in 1..Len(dash.ret.rows) :
            dash.ret.rows[i].popularity_score.num
                <= dash.ret.rows[i].tracks * dash.ret.rows[i].popularity_score.den
====
